---------------------------- MODULE Spec2Model ----------------------------
(***************************************************************************)
(* A model of zerohub's template generator (src/src/main.rs): the          *)
(* placeholder substitution fill_template_content, the archive repackaging *)
(* create_server_zip / create_client_zip, and the two POST handlers        *)
(* generate_server_zip / generate_client_zip with their Json<UserInfo>     *)
(* extractor.                                                              *)
(*                                                                         *)
(* Text is a sequence of characters, each a one-character string.  The     *)
(* four placeholder names are kept as single symbols ("username", "email", *)
(* "project_name", "project_description"): a symbol stands for the         *)
(* characters of that name, so "{{username}}" is the five-symbol sequence  *)
(* "{" "{" "username" "}" "}".  No other character of the alphabets used   *)
(* below can spell a placeholder name, so a match of a token in a modelled *)
(* text is a match in the text it stands for and the other way round.      *)
(***************************************************************************)
EXTENDS Naturals, Sequences, FiniteSets, TLC

VARIABLES
    disk,      \* the deployment's files: path -> file (never written at runtime)
    host,      \* what the host hands out: each request's random UUID, the clock
    tmp,       \* the temporary directory: temp file name -> file
    req,       \* per request: its body, position in the handler and locals
    resp,      \* per request: the HTTP response sent, if any
    render,    \* one call of fill_template_content: its inputs and its result
    naming     \* one derivation of the download filename and header

vars == <<disk, host, tmp, req, resp, render, naming>>

---------------------------------------------------------------------------
(* Bounds *)

\* the template texts tried are concatenations of at most MaxPieces pieces
MaxPieces == 3
\* the project names tried have at most MaxNameLen characters
MaxNameLen == 3
\* requests in flight at once
NumRequests == 2
\* a baseline archive has at most MaxEntries entries
MaxEntries == 2

---------------------------------------------------------------------------
(* fill_template_content, main.rs 53-60 *)

Token(name) == <<"{", "{", name, "}", "}">>

FieldNames == <<"username", "email", "project_name", "project_description">>

\* str::replace: every non-overlapping match of `from`, found left to right,
\* is replaced by `to`; the text put in is not scanned again by this call.
RECURSIVE Replace(_, _, _)
RECURSIVE ReplaceFirstOnly(_, _, _)
ReplaceFirstOnly(s, from, to) ==
    IF Len(s) < Len(from) THEN s
    ELSE IF SubSeq(s, 1, Len(from)) = from
         THEN to \o SubSeq(s, Len(from) + 1, Len(s))
         ELSE <<Head(s)>> \o ReplaceFirstOnly(Tail(s), from, to)

Replace(s, from, to) ==
    IF Len(s) < Len(from) THEN s
    ELSE IF SubSeq(s, 1, Len(from)) = from
         THEN to \o Replace(SubSeq(s, Len(from) + 1, Len(s)), from, to)
         ELSE <<Head(s)>> \o Replace(Tail(s), from, to)

\* the four chained replace calls, each applied to the result of the one before
FillTemplateContent(content, data) ==
    LET s1 == Replace(content, Token("username"), data.username)
        s2 == Replace(s1, Token("email"), data.email)
        s3 == Replace(s2, Token("project_name"), data.project_name)
    IN  Replace(s3, Token("project_description"), data.project_description)

---------------------------------------------------------------------------
(* The download filename and its header, main.rs 253-268 and 291-306 *)

Variants == {"server", "client"}

\* Characters of project names.  "E_ACUTE" and "e_acute" stand for the
\* non-ASCII letters U+00C9 and U+00E9; "\t" is the tab character.
AsciiUpper == {"C"}
AsciiLower == {"c", "z", "i", "p", "l", "e", "n", "t"}
AsciiAlnum == AsciiUpper \cup AsciiLower
NameChars == {"C", "c", " ", "\t", "_", "E_ACUTE", "e_acute"}

\* char::to_lowercase on the characters above
LowerChar(c) ==
    CASE c = "C" -> "c"
      [] c = "E_ACUTE" -> "e_acute"
      [] OTHER -> c

\* str::to_lowercase
ToLowercase(s) == [i \in 1..Len(s) |-> LowerChar(s[i])]

\* the UTF-8 bytes of a character that is not an ASCII letter or digit, each
\* byte as its two hexadecimal digits
Utf8Hex(c) ==
    CASE c = " " -> << <<"2", "0">> >>
      [] c = "\t" -> << <<"0", "9">> >>
      [] c = "_" -> << <<"5", "F">> >>
      [] c = "." -> << <<"2", "E">> >>
      [] c = "-" -> << <<"2", "D">> >>
      [] c = "e_acute" -> << <<"C", "3">>, <<"A", "9">> >>
      [] c = "E_ACUTE" -> << <<"C", "3">>, <<"8", "9">> >>

RECURSIVE PercentEncodeBytes(_)
PercentEncodeBytes(bs) ==
    IF bs = <<>> THEN <<>>
    ELSE <<"%", Head(bs)[1], Head(bs)[2]>> \o PercentEncodeBytes(Tail(bs))

\* percent_encoding::utf8_percent_encode(s, NON_ALPHANUMERIC): every byte
\* that is not an ASCII letter or digit becomes %XX
RECURSIVE Utf8PercentEncode(_)
Utf8PercentEncode(s) ==
    IF s = <<>> THEN <<>>
    ELSE (IF Head(s) \in AsciiAlnum THEN <<Head(s)>>
          ELSE PercentEncodeBytes(Utf8Hex(Head(s))))
         \o Utf8PercentEncode(Tail(s))

\* format!("{}.zip", ..) for the server, format!("{}-client.zip", ..) for the client
Suffix(variant) ==
    IF variant = "server" THEN <<".", "z", "i", "p">>
    ELSE <<"-", "c", "l", "i", "e", "n", "t", ".", "z", "i", "p">>

FilenameKeepingSpaces(variant, project_name) ==
    ToLowercase(project_name) \o Suffix(variant)

\* project_name.replace(" ", "_").to_lowercase(), then the suffix
Filename(variant, project_name) ==
    ToLowercase(Replace(project_name, <<" ">>, <<"_">>)) \o Suffix(variant)

\* format!("attachment; filename*=UTF-8''{}", encoded_filename)
ContentDisposition(filename) ==
    [disposition |-> "attachment", parameter |-> "filename*",
     charset |-> "UTF-8", value |-> Utf8PercentEncode(filename)]

---------------------------------------------------------------------------
(* The files the handlers read, main.rs 65, 103, 114, 125, 149, 187, 198, 209 *)

BaselinePath(variant) ==
    IF variant = "server" THEN <<"templates", "server", "zero.zip">>
    ELSE <<"templates", "client", "zero-client.zip">>

TemplateNamesReadmeFirst(variant) ==
    IF variant = "server" THEN <<"README.md", "LICENSE", "pyproject.toml">>
    ELSE <<"README.md", "LICENSE", "package.json">>

\* the three rendered files, in the order the code adds them
TemplateNames(variant) ==
    IF variant = "server" THEN <<"LICENSE", "pyproject.toml", "README.md">>
    ELSE <<"LICENSE", "package.json", "README.md">>

TemplatePath(variant, name) == <<"templates", variant, name>>

Paths ==
    {BaselinePath(v) : v \in Variants}
        \cup {TemplatePath(v, TemplateNames(v)[k]) : v \in Variants, k \in 1..3}

\* A file on disk.  "unreadable": it exists and reading it fails (fs::read or
\* fs::read_to_string returns Err).  "not_zip": bytes ZipArchive::new rejects.
Missing == [kind |-> "missing", text |-> <<>>, entries |-> <<>>]
Unreadable == [kind |-> "unreadable", text |-> <<>>, entries |-> <<>>]
NotAZip == [kind |-> "not_zip", text |-> <<>>, entries |-> <<>>]
TextFile(text) == [kind |-> "text", text |-> text, entries |-> <<>>]
ZipFile(entries) == [kind |-> "zip", text |-> <<>>, entries |-> entries]

\* std::path::Path::exists
Exists(file) == file.kind # "missing"

---------------------------------------------------------------------------
(* Errors: Box<dyn Error> values, told apart by what produced them *)

NoPath == <<>>
NoCause == [kind |-> "none", path |-> NoPath, name |-> ""]
\* format!("File not found: {}", path), main.rs 69, 105, 116, 127
FileNotFound(path) == [kind |-> "File not found", path |-> path, name |-> ""]
\* format!("Failed to read {}: {}", path, e), main.rs 77
FailedToRead(path) == [kind |-> "Failed to read", path |-> path, name |-> ""]
\* an std::io::Error: a template that cannot be read as text, entry data that
\* cannot be read to the end, a failed write, seek or read of the temporary file
IoError == [kind |-> "io error", path |-> NoPath, name |-> ""]
\* ZipError from ZipArchive::new
InvalidArchive == [kind |-> "invalid Zip archive", path |-> NoPath, name |-> ""]
\* ZipError from by_index on an entry it cannot open
EntryError == [kind |-> "unsupported Zip archive", path |-> NoPath, name |-> ""]
\* ZipError from ZipWriter::start_file on a name already written
DuplicateFilename(name) ==
    [kind |-> "Duplicate filename", path |-> NoPath, name |-> name]

---------------------------------------------------------------------------
(* The Json<UserInfo> extractor, main.rs 20-26 and 246, 284 *)

Absent == [kind |-> "absent", text |-> <<>>]
NotAString == [kind |-> "number", text |-> <<>>]
Str(text) == [kind |-> "string", text |-> text]

FieldSet == {FieldNames[k] : k \in 1..4}

NoUserInfo == [f \in FieldSet |-> <<>>]

ExtractJsonDefaulting(body) ==
    IF ~body.wellformed
    THEN [ok |-> FALSE, status |-> 400, user_info |-> NoUserInfo]
    ELSE [ok |-> TRUE, status |-> 200,
          user_info |-> [f \in FieldSet |-> body.fields[f].text]]

\* serde's derived Deserialize for UserInfo: all four fields are String, none
\* is optional or defaulted.  axum answers a body that is not JSON with 400
\* and a JSON body that does not deserialize with 422; the handler is not
\* called.
ExtractJson(body) ==
    IF ~body.wellformed
    THEN [ok |-> FALSE, status |-> 400, user_info |-> NoUserInfo]
    ELSE IF \E f \in FieldSet : body.fields[f].kind # "string"
    THEN [ok |-> FALSE, status |-> 422, user_info |-> NoUserInfo]
    ELSE [ok |-> TRUE, status |-> 200,
          user_info |-> [f \in FieldSet |-> body.fields[f].text]]

---------------------------------------------------------------------------
(* Responses, main.rs 265-278 and 303-316 *)

NoZip == [present |-> FALSE, entries |-> <<>>, sealed |-> FALSE]
NoDisposition ==
    [disposition |-> "", parameter |-> "", charset |-> "", value |-> <<>>]
NoError == [context |-> "", cause |-> NoCause]

NoResponse ==
    [status |-> 0, content_type |-> "", header |-> NoDisposition,
     zip |-> NoZip, error |-> NoError]

Rejection(status) ==
    [status |-> status, content_type |-> "text/plain", header |-> NoDisposition,
     zip |-> NoZip, error |-> NoError]

\* (StatusCode::OK, headers, zip_data)
ZipResponse(variant, project_name, zip_data) ==
    [status |-> 200, content_type |-> "application/zip",
     header |-> ContentDisposition(Filename(variant, project_name)),
     zip |-> zip_data, error |-> NoError]

ErrorContext(variant) ==
    IF variant = "server" THEN "Failed to create server zip file"
    ELSE "Failed to create client zip file"

ErrorResponseEmptyZip(variant, e) ==
    [status |-> 200, content_type |-> "application/zip",
     header |-> NoDisposition,
     zip |-> [present |-> TRUE, entries |-> <<>>, sealed |-> FALSE],
     error |-> NoError]

\* (StatusCode::INTERNAL_SERVER_ERROR, Json({"error": format!(..)}))
ErrorResponse(variant, e) ==
    [status |-> 500, content_type |-> "application/json",
     header |-> NoDisposition, zip |-> NoZip,
     error |-> [context |-> ErrorContext(variant), cause |-> e]]

---------------------------------------------------------------------------
(* The temporary file and the ZipWriter on it, main.rs 82-141 *)

Requests == 1..NumRequests
TmpNames == 1..NumRequests

NoFile == [exists |-> FALSE, entries |-> <<>>, sealed |-> FALSE]
EmptyFile == [exists |-> TRUE, entries |-> <<>>, sealed |-> FALSE]

SharedTempName(files) == 1

\* NamedTempFile::new: a file of a name no existing temporary file has
FreshTempName(files) ==
    CHOOSE n \in TmpNames :
        /\ ~files[n].exists
        /\ \A m \in TmpNames : m < n => files[m].exists

NeverTaken(name, written) == FALSE

\* ZipWriter::start_file refuses a name the writer already holds (zip 1.x and
\* later, the versions with the generic FileOptions::<()> of main.rs 86)
NameTaken(name, written) ==
    \E j \in 1..Len(written) : written[j].name = name

CopiedEntryNoData(e) == [name |-> e.name, data |-> <<>>]

\* start_file(&name, ..); io::copy(&mut file, &mut buffer); write_all(&buffer)
CopiedEntry(e) == [name |-> e.name, data |-> e.data]

RenderedEntryUnfilled(name, text, data) == [name |-> name, data |-> text]

\* fill_template_content, start_file(name, ..), write_all(filled.as_bytes())
RenderedEntry(name, text, data) ==
    [name |-> name, data |-> FillTemplateContent(text, data)]

---------------------------------------------------------------------------
(* A request and its locals *)

NoData ==
    [username |-> <<>>, email |-> <<>>, project_name |-> <<>>,
     project_description |-> <<>>, generated_id |-> "", timestamp |-> ""]

NoResult == [ok |-> FALSE, buffer |-> NoZip, error |-> NoCause]

NoBody == [wellformed |-> FALSE, fields |-> [f \in FieldSet |-> Absent]]

IdleRequest ==
    [pc |-> "idle", variant |-> "server", body |-> NoBody,
     user_info |-> NoUserInfo, data |-> NoData, zip_data |-> Missing,
     temp |-> 0, i |-> 0, result |-> NoResult]

NewRequest(variant, body) ==
    [IdleRequest EXCEPT !.pc = "extract", !.variant = variant, !.body = body]

\* what Uuid::new_v4() and Utc::now().format(..) may return
Uuids == {"uuid-1", "uuid-2"}
Timestamps == {"2025-01-01 00:00:00 UTC", "2025-01-01 00:00:01 UTC"}

\* `?` on an Err: create_*_zip returns it; its locals, the temporary file
\* among them, are dropped (a NamedTempFile deletes its file when dropped)
Fail(r, e) ==
    /\ req' = [req EXCEPT ![r].pc = "respond",
                          ![r].result = [ok |-> FALSE, buffer |-> NoZip, error |-> e],
                          ![r].zip_data = Missing,
                          ![r].temp = 0,
                          ![r].i = 0]
    /\ tmp' = IF req[r].temp = 0 THEN tmp
              ELSE [tmp EXCEPT ![req[r].temp] = NoFile]
    /\ UNCHANGED <<disk, host, resp, render, naming>>

\* the extractor runs before the handler body, main.rs 245-247, 283-285
JsonExtract(r) ==
    /\ req[r].pc = "extract"
    /\ LET x == ExtractJson(req[r].body)
       IN  IF x.ok
           THEN /\ req' = [req EXCEPT ![r].pc = "handler",
                                      ![r].user_info = x.user_info]
                /\ UNCHANGED resp
           ELSE /\ req' = [req EXCEPT ![r].pc = "done"]
                /\ resp' = [resp EXCEPT ![r] = Rejection(x.status)]
    /\ UNCHANGED <<disk, host, tmp, render, naming>>

\* let template_data: TemplateData = user_info.into(), main.rs 38-49, 249, 287
IntoTemplateData(r) ==
    /\ req[r].pc = "handler"
    /\ LET id == host.uuid[r]
           now == host.now
       IN
        req' = [req EXCEPT
                  ![r].pc = "read_zip",
                  ![r].data = [username |-> req[r].user_info.username,
                               email |-> req[r].user_info.email,
                               project_name |-> req[r].user_info.project_name,
                               project_description |->
                                   req[r].user_info.project_description,
                               generated_id |-> id,
                               timestamp |-> now]]
    /\ UNCHANGED <<disk, host, tmp, resp, render, naming>>

\* main.rs 65-80, 149-164: the existence check, then fs::read
ReadBaseline(r) ==
    /\ req[r].pc = "read_zip"
    /\ LET path == BaselinePath(req[r].variant)
           file == disk[path]
       IN  IF ~Exists(file) THEN Fail(r, FileNotFound(path))
           ELSE IF file.kind = "unreadable" THEN Fail(r, FailedToRead(path))
           ELSE /\ req' = [req EXCEPT ![r].pc = "temp_file",
                                      ![r].zip_data = file]
                /\ UNCHANGED <<disk, host, tmp, resp, render, naming>>

\* main.rs 82-86, 166-170: NamedTempFile::new()? and the ZipWriter on it
NewTempFile(r) ==
    /\ req[r].pc = "temp_file"
    /\ \/ LET n == FreshTempName(tmp)
          IN  /\ tmp' = [tmp EXCEPT ![n] = EmptyFile]
              /\ req' = [req EXCEPT ![r].pc = "open_archive", ![r].temp = n]
              /\ UNCHANGED <<disk, host, resp, render, naming>>
       \/ Fail(r, IoError)

\* main.rs 89-90, 173-174: ZipArchive::new(cursor)?
OpenArchive(r) ==
    /\ req[r].pc = "open_archive"
    /\ IF req[r].zip_data.kind # "zip" THEN Fail(r, InvalidArchive)
       ELSE /\ req' = [req EXCEPT
                         ![r].pc = IF Len(req[r].zip_data.entries) = 0
                                   THEN "template" ELSE "copy",
                         ![r].i = 1]
            /\ UNCHANGED <<disk, host, tmp, resp, render, naming>>

\* main.rs 92-100, 176-184: one turn of the copy loop: by_index, start_file,
\* io::copy, write_all
CopyEntry(r) ==
    /\ req[r].pc = "copy"
    /\ LET entries == req[r].zip_data.entries
           e == entries[req[r].i]
           written == tmp[req[r].temp].entries
       IN  IF e.state = "unopenable" THEN Fail(r, EntryError)
           ELSE IF NameTaken(e.name, written)
           THEN Fail(r, DuplicateFilename(e.name))
           ELSE IF e.state = "corrupt" THEN Fail(r, IoError)
           ELSE \/ /\ tmp' = [tmp EXCEPT ![req[r].temp].entries =
                                             Append(written, CopiedEntry(e))]
                   /\ req' = [req EXCEPT
                                ![r].pc = IF req[r].i = Len(entries)
                                          THEN "template" ELSE "copy",
                                ![r].i = IF req[r].i = Len(entries)
                                         THEN 1 ELSE req[r].i + 1]
                   /\ UNCHANGED <<disk, host, resp, render, naming>>
                \/ Fail(r, IoError)

\* main.rs 103-134, 187-218: one of the three rendered files: the existence
\* check, read_to_string, fill_template_content, start_file, write_all
AddTemplate(r) ==
    /\ req[r].pc = "template"
    /\ LET name == TemplateNames(req[r].variant)[req[r].i]
           path == TemplatePath(req[r].variant, name)
           file == disk[path]
           written == tmp[req[r].temp].entries
       IN  IF ~Exists(file) THEN Fail(r, FileNotFound(path))
           ELSE IF file.kind # "text" THEN Fail(r, IoError)
           ELSE IF NameTaken(name, written)
           THEN Fail(r, DuplicateFilename(name))
           ELSE \/ /\ tmp' = [tmp EXCEPT ![req[r].temp].entries =
                                 Append(written,
                                        RenderedEntry(name, file.text, req[r].data))]
                   /\ req' = [req EXCEPT
                                ![r].pc = IF req[r].i = 3 THEN "finish"
                                          ELSE "template",
                                ![r].i = IF req[r].i = 3 THEN 0 ELSE req[r].i + 1]
                   /\ UNCHANGED <<disk, host, resp, render, naming>>
                \/ Fail(r, IoError)

\* main.rs 136, 220: zip.finish()?
Finish(r) ==
    /\ req[r].pc = "finish"
    /\ \/ /\ tmp' = [tmp EXCEPT ![req[r].temp].sealed = TRUE]
          /\ req' = [req EXCEPT ![r].pc = "read_back"]
          /\ UNCHANGED <<disk, host, resp, render, naming>>
       \/ Fail(r, IoError)

\* main.rs 139-143, 223-227: seek to the start, read_to_end, Ok(buffer); the
\* temporary file is dropped on return
ReadBack(r) ==
    /\ req[r].pc = "read_back"
    /\ \/ /\ req' = [req EXCEPT
                       ![r].pc = "respond",
                       ![r].result =
                           [ok |-> TRUE,
                            buffer |-> [present |-> TRUE,
                                        entries |-> tmp[req[r].temp].entries,
                                        sealed |-> tmp[req[r].temp].sealed],
                            error |-> NoCause],
                       ![r].zip_data = Missing,
                       ![r].temp = 0]
          /\ tmp' = [tmp EXCEPT ![req[r].temp] = NoFile]
          /\ UNCHANGED <<disk, host, resp, render, naming>>
       \/ Fail(r, IoError)

\* main.rs 251-279, 289-317: the match on the result
Respond(r) ==
    /\ req[r].pc = "respond"
    /\ resp' = [resp EXCEPT ![r] =
                  IF req[r].result.ok
                  THEN ZipResponse(req[r].variant, req[r].data.project_name,
                                   req[r].result.buffer)
                  ELSE ErrorResponse(req[r].variant, req[r].result.error)]
    /\ req' = [req EXCEPT ![r].pc = "done", ![r].data = NoData,
                          ![r].result = NoResult]
    /\ UNCHANGED <<disk, host, tmp, render, naming>>

Next ==
    \E r \in Requests :
        \/ JsonExtract(r)
        \/ IntoTemplateData(r)
        \/ ReadBaseline(r)
        \/ NewTempFile(r)
        \/ OpenArchive(r)
        \/ CopyEntry(r)
        \/ AddTemplate(r)
        \/ Finish(r)
        \/ ReadBack(r)
        \/ Respond(r)

---------------------------------------------------------------------------
(* Inputs of the two function-level specifications *)

\* plain text, stray braces and the four tokens
Pieces ==
    {<<"a">>, <<"{", "{">>, <<"}", "}">>} \cup {Token(FieldNames[k]) : k \in 1..4}

RECURSIVE Concats(_)
Concats(n) ==
    IF n = 0 THEN {<<>>}
    ELSE LET shorter == Concats(n - 1)
         IN  shorter \cup {p \o s : p \in Pieces, s \in shorter}

TemplateTexts == Concats(MaxPieces)

\* field values: empty, plain, the word "username", and values that hold a
\* placeholder token
UserFields ==
    [username : {<<>>, <<"a">>, <<"username">>, Token("username"),
                 Token("project_description")},
     email : {<<>>, <<"a">>, <<"username">>, Token("username")},
     project_name : {<<>>, <<"a">>},
     project_description : {<<>>, <<"a">>}]

RECURSIVE SeqsUpTo(_, _)
SeqsUpTo(S, n) ==
    IF n = 0 THEN {<<>>}
    ELSE LET shorter == SeqsUpTo(S, n - 1)
         IN  shorter \cup {<<c>> \o s : c \in S, s \in {t \in shorter : Len(t) = n - 1}}

ProjectNames == SeqsUpTo(NameChars, MaxNameLen)

RenderIdle ==
    [phase |-> "idle", content |-> <<>>,
     data |-> [username |-> <<>>, email |-> <<>>, project_name |-> <<>>,
               project_description |-> <<>>],
     out |-> <<>>]

NamingIdle ==
    [phase |-> "idle", variant |-> "server", project_name |-> <<>>,
     filename |-> <<>>, header |-> ContentDisposition(<<>>)]

---------------------------------------------------------------------------
(* Deployments and request bodies *)

\* the text of a template file as shipped
DefaultText(name) ==
    CASE name = "LICENSE" ->
             <<"(", "c", ")">> \o Token("username") \o <<"<">> \o Token("email")
      [] name = "README.md" ->
             <<"#">> \o Token("project_name") \o Token("project_description")
      [] OTHER ->
             Token("project_name") \o <<"=">> \o Token("project_description")

EntryNames == {"main.py", "src/app.py", "LICENSE"}
EntryData == {<<"x">>, <<"y">>}

\* state "unopenable": by_index returns Err for the entry (an unsupported
\* method, an encrypted entry); "corrupt": its data cannot be read to the end
\* (io::copy returns Err)
BaselineEntries ==
    [name : EntryNames, data : EntryData, state : {"intact"}]
        \cup [name : {"main.py"}, data : {<<>>}, state : {"unopenable", "corrupt"}]

BaselineStates ==
    {Missing, Unreadable, NotAZip}
        \cup {ZipFile(es) : es \in SeqsUpTo(BaselineEntries, MaxEntries)}

TemplateState(kind, name) ==
    CASE kind = "missing" -> Missing
      [] kind = "unreadable" -> Unreadable
      [] OTHER -> TextFile(DefaultText(name))

MainPy == [name |-> "main.py", data |-> <<"x">>, state |-> "intact"]
License == [name |-> "LICENSE", data |-> <<"y">>, state |-> "intact"]

GoodDisk ==
    [p \in Paths |->
        IF p \in {BaselinePath(v) : v \in Variants} THEN ZipFile(<<MainPy>>)
        ELSE TextFile(DefaultText(p[3]))]

Alice ==
    [username |-> <<"a">>, email |-> <<"a", "@", "x">>,
     project_name |-> <<"C", " ", "c">>, project_description |-> <<"d">>]
Bob ==
    [username |-> Token("email"), email |-> <<"b">>,
     project_name |-> <<"p">>, project_description |-> <<>>]

ValidBody(info) ==
    [wellformed |-> TRUE, fields |-> [f \in FieldSet |-> Str(info[f])]]

Bodies ==
    {ValidBody(Alice), ValidBody(Bob), NoBody}
        \cup {[ValidBody(Alice) EXCEPT !.fields[f] = v] :
                 f \in FieldSet, v \in {Absent, NotAString}}

QuietHost ==
    [uuid |-> [r \in Requests |-> "uuid-1"], now |-> "2025-01-01 00:00:00 UTC"]

MachineIdle ==
    /\ disk = GoodDisk
    /\ host = QuietHost
    /\ tmp = [n \in TmpNames |-> NoFile]
    /\ req = [r \in Requests |-> IdleRequest]
    /\ resp = [r \in Requests |-> NoResponse]

---------------------------------------------------------------------------
(* One request against every deployment of its variant *)

\* the deployment whose `v` files are `base` and templates of the given kinds
Deployment(v, base, kinds) ==
    [p \in Paths |->
        IF p = BaselinePath(v) THEN base
        ELSE IF \E k \in 1..3 : p = TemplatePath(v, TemplateNames(v)[k])
        THEN LET k == CHOOSE k \in 1..3 : p = TemplatePath(v, TemplateNames(v)[k])
             IN  TemplateState(kinds[k], TemplateNames(v)[k])
        ELSE GoodDisk[p]]

ConcurrentDisks ==
    {GoodDisk,
     [GoodDisk EXCEPT ![BaselinePath("server")] = ZipFile(<<MainPy, License>>),
                      ![TemplatePath("client", "README.md")] = Missing]}

\* a well-formed request against every deployment, and every body against a few
SeqInit ==
    /\ \E v \in Variants :
          /\ \/ \E base \in BaselineStates,
                   kinds \in [1..3 -> {"missing", "unreadable", "text"}] :
                    /\ disk = Deployment(v, base, kinds)
                    /\ req = [r \in Requests |->
                                IF r = 1 THEN NewRequest(v, ValidBody(Alice))
                                ELSE IdleRequest]
             \/ \E body \in Bodies :
                    /\ disk \in ConcurrentDisks
                    /\ req = [r \in Requests |->
                                IF r = 1 THEN NewRequest(v, body) ELSE IdleRequest]
    /\ \E id \in Uuids, now \in Timestamps :
          host = [uuid |-> [r \in Requests |-> id], now |-> now]
    /\ tmp = [n \in TmpNames |-> NoFile]
    /\ resp = [r \in Requests |-> NoResponse]
    /\ render = RenderIdle
    /\ naming = NamingIdle

SpecSeq == SeqInit /\ [][Next]_vars

---------------------------------------------------------------------------
(* NumRequests requests in flight at once *)

ConcurrentBodies ==
    {ValidBody(Alice), ValidBody(Bob),
     [ValidBody(Alice) EXCEPT !.fields["email"] = Absent]}

Init ==
    /\ disk \in ConcurrentDisks
    /\ host = QuietHost
    /\ req \in [Requests -> {NewRequest(v, b) : v \in Variants,
                                               b \in ConcurrentBodies}]
    /\ tmp = [n \in TmpNames |-> NoFile]
    /\ resp = [r \in Requests |-> NoResponse]
    /\ render = RenderIdle
    /\ naming = NamingIdle

Spec == Init /\ [][Next]_vars

---------------------------------------------------------------------------
(* fill_template_content applied to one template text and one context *)

RenderInit ==
    /\ render \in [phase : {"input"}, content : TemplateTexts,
                   data : UserFields, out : {<<>>}]
    /\ naming = NamingIdle
    /\ MachineIdle

Render ==
    /\ render.phase = "input"
    /\ render' = [render EXCEPT
                    !.phase = "done",
                    !.out = FillTemplateContent(render.content, render.data)]
    /\ UNCHANGED <<disk, host, tmp, req, resp, naming>>

SpecRender == RenderInit /\ [][Render]_vars

---------------------------------------------------------------------------
(* The filename and Content-Disposition derived from one project name *)

NamingInit ==
    /\ naming \in [phase : {"input"}, variant : Variants,
                   project_name : ProjectNames, filename : {<<>>},
                   header : {ContentDisposition(<<>>)}]
    /\ render = RenderIdle
    /\ MachineIdle

DeriveFilename ==
    /\ naming.phase = "input"
    /\ LET filename == Filename(naming.variant, naming.project_name)
       IN  naming' = [naming EXCEPT
                        !.phase = "done",
                        !.filename = filename,
                        !.header = ContentDisposition(filename)]
    /\ UNCHANGED <<disk, host, tmp, req, resp, render>>

SpecNaming == NamingInit /\ [][DeriveFilename]_vars

---------------------------------------------------------------------------
(* What the claims speak of *)

\* the body deserializes into a UserInfo
WellTyped(body) ==
    body.wellformed /\ \A f \in FieldSet : body.fields[f].kind = "string"

InfoOf(body) == [f \in FieldSet |-> body.fields[f].text]

\* the rendered files in the order the claims state
ClaimedOrder(v) ==
    <<"LICENSE", IF v = "server" THEN "pyproject.toml" ELSE "package.json",
      "README.md">>

BaseEntries(v) == disk[BaselinePath(v)].entries

\* the entries a run of variant v writes when nothing fails
PlannedEntries(v, info) ==
    LET n == Len(BaseEntries(v))
    IN  [i \in 1..(n + 3) |->
            IF i <= n
            THEN [name |-> BaseEntries(v)[i].name, data |-> BaseEntries(v)[i].data]
            ELSE [name |-> ClaimedOrder(v)[i - n],
                  data |-> FillTemplateContent(
                               disk[TemplatePath(v, ClaimedOrder(v)[i - n])].text,
                               info)]]

\* the error the i-th write of a run raises, NoCause if none
StepError(v, i) ==
    LET n == Len(BaseEntries(v))
        name == IF i <= n THEN BaseEntries(v)[i].name ELSE ClaimedOrder(v)[i - n]
        earlier == {IF j <= n THEN BaseEntries(v)[j].name ELSE ClaimedOrder(v)[j - n] :
                       j \in 1..(i - 1)}
        file == disk[TemplatePath(v, name)]
    IN  IF i <= n /\ BaseEntries(v)[i].state = "unopenable" THEN EntryError
        ELSE IF i > n /\ file.kind = "missing"
        THEN FileNotFound(TemplatePath(v, name))
        ELSE IF i > n /\ file.kind # "text" THEN IoError
        ELSE IF name \in earlier THEN DuplicateFilename(name)
        ELSE IF i <= n /\ BaseEntries(v)[i].state = "corrupt" THEN IoError
        ELSE NoCause

\* the first failure in the order: baseline exists, is read, is parsed, each
\* baseline entry, then LICENSE, the manifest, README.md
FirstError(v) ==
    LET base == disk[BaselinePath(v)]
        n == Len(base.entries)
        bad == {i \in 1..(n + 3) : StepError(v, i) # NoCause}
    IN  IF base.kind = "missing" THEN FileNotFound(BaselinePath(v))
        ELSE IF base.kind = "unreadable" THEN FailedToRead(BaselinePath(v))
        ELSE IF base.kind # "zip" THEN InvalidArchive
        ELSE IF bad = {} THEN NoCause
        ELSE StepError(v, CHOOSE i \in bad : \A j \in bad : i <= j)

\* every file of variant v is present and readable, every entry intact
AllFilesGood(v) ==
    /\ disk[BaselinePath(v)].kind = "zip"
    /\ \A i \in 1..Len(BaseEntries(v)) : BaseEntries(v)[i].state = "intact"
    /\ \A k \in 1..3 : disk[TemplatePath(v, ClaimedOrder(v)[k])].kind = "text"

Answered(r) == resp[r] # NoResponse

---------------------------------------------------------------------------
(* C1 *)

\* C1: whenever create_server_zip / create_client_zip succeeds (the result
\* in hand, and the 200 response made of it), the output archive starts with
\* the entries of the baseline archive, in the baseline's order, each under
\* its name and with its decompressed content.
C1_BaselinePreserved ==
    \A r \in Requests :
        LET v == req[r].variant
            out == IF req[r].pc = "respond" THEN req[r].result.buffer.entries
                   ELSE resp[r].zip.entries
        IN  (req[r].pc = "respond" /\ req[r].result.ok) \/ resp[r].status = 200
            => /\ disk[BaselinePath(v)].kind = "zip"
               /\ Len(out) >= Len(BaseEntries(v))
               /\ \A i \in 1..Len(BaseEntries(v)) :
                     /\ out[i].name = BaseEntries(v)[i].name
                     /\ out[i].data = BaseEntries(v)[i].data

\* a 200 response whose baseline archive held two entries
C1_Witness ==
    \E r \in Requests :
        /\ resp[r].status = 200
        /\ Len(BaseEntries(req[r].variant)) = 2
        /\ BaseEntries(req[r].variant)[1].data # BaseEntries(req[r].variant)[2].data

---------------------------------------------------------------------------
(* C2 *)

\* C2: whenever repackaging succeeds the output has (baseline entries + 3)
\* entries, and after the copied baseline entries come LICENSE, the manifest
\* (pyproject.toml or package.json) and README.md, in that order, each
\* holding fill_template_content of its template file and the request's
\* fields.
C2_RenderedAppended ==
    \A r \in Requests :
        LET v == req[r].variant
            n == Len(BaseEntries(v))
            out == resp[r].zip.entries
        IN  resp[r].status = 200
            => /\ Len(out) = n + 3
               /\ \A k \in 1..3 :
                     /\ out[n + k].name = ClaimedOrder(v)[k]
                     /\ out[n + k].data =
                            FillTemplateContent(
                                disk[TemplatePath(v, ClaimedOrder(v)[k])].text,
                                InfoOf(req[r].body))

\* a 200 response for a baseline with an entry, for each variant's manifest
C2_Witness ==
    \E r \in Requests :
        /\ resp[r].status = 200
        /\ req[r].variant = "client"
        /\ Len(BaseEntries("client")) >= 1
        /\ resp[r].zip.entries[Len(BaseEntries("client")) + 2].name = "package.json"

---------------------------------------------------------------------------
(* C3 *)

\* C3: a request fails atomically.  A failed create_*_zip hands the handler
\* no bytes; a response other than 200 carries no archive; a 500 carries a
\* JSON body with an error; a 200 is sent only for a sealed archive holding
\* every planned entry, and only when every file was present and readable;
\* and when a file is missing, unreadable or unparseable the answer to a
\* well-typed request is 500.
C3_AtomicFailure ==
    \A r \in Requests :
        LET v == req[r].variant
        IN  /\ req[r].pc = "respond" /\ ~req[r].result.ok
                => req[r].result.buffer = NoZip /\ req[r].result.error # NoCause
            /\ Answered(r) /\ resp[r].status # 200 => resp[r].zip = NoZip
            /\ resp[r].status = 500
                => /\ resp[r].content_type = "application/json"
                   /\ resp[r].error.context # ""
                   /\ resp[r].error.cause # NoCause
            /\ resp[r].status = 200
                => /\ resp[r].zip.present /\ resp[r].zip.sealed
                   /\ Len(resp[r].zip.entries) = Len(BaseEntries(v)) + 3
                   /\ AllFilesGood(v)
            /\ Answered(r) /\ WellTyped(req[r].body) /\ ~AllFilesGood(v)
                => resp[r].status = 500

\* a 500 for a README.md found missing after baseline entries, LICENSE and
\* the manifest were already written to the output
C3_Witness ==
    \E r \in Requests :
        /\ resp[r].status = 500
        /\ Len(BaseEntries(req[r].variant)) >= 1
        /\ resp[r].error.cause =
               FileNotFound(TemplatePath(req[r].variant, "README.md"))

---------------------------------------------------------------------------
(* C7 *)

\* the response a request gets when it runs alone on the files on disk and
\* no operation on its temporary file fails
ResponseAlone(v, body) ==
    IF ~body.wellformed THEN Rejection(400)
    ELSE IF ~WellTyped(body) THEN Rejection(422)
    ELSE IF FirstError(v) # NoCause
    THEN [status |-> 500, content_type |-> "application/json",
          header |-> NoDisposition, zip |-> NoZip,
          error |-> [context |-> IF v = "server"
                                 THEN "Failed to create server zip file"
                                 ELSE "Failed to create client zip file",
                     cause |-> FirstError(v)]]
    ELSE [status |-> 200, content_type |-> "application/zip",
          header |-> ContentDisposition(Filename(v, InfoOf(body).project_name)),
          zip |-> [present |-> TRUE,
                   entries |-> PlannedEntries(v, InfoOf(body)),
                   sealed |-> TRUE],
          error |-> NoError]

\* the response a request gets when an operation on its own temporary file
\* fails: possible once its baseline has been read
ResponseOnIoFailure(v) ==
    [status |-> 500, content_type |-> "application/json",
     header |-> NoDisposition, zip |-> NoZip,
     error |-> [context |-> IF v = "server"
                            THEN "Failed to create server zip file"
                            ELSE "Failed to create client zip file",
                cause |-> IoError]]

C7_State ==
    /\ \A r \in Requests :
          Answered(r)
          => \/ resp[r] = ResponseAlone(req[r].variant, req[r].body)
             \/ /\ resp[r] = ResponseOnIoFailure(req[r].variant)
                /\ WellTyped(req[r].body)
                /\ disk[BaselinePath(req[r].variant)].kind \notin
                       {"missing", "unreadable"}
    /\ \A r1, r2 \in Requests :
          r1 # r2 /\ req[r1].temp # 0 /\ req[r2].temp # 0
          => req[r1].temp # req[r2].temp
    /\ \A r \in Requests : req[r].temp # 0 => tmp[req[r].temp].exists

\* no step writes a file on disk, and a step of one request leaves the
\* temporary file of every other request as it was
C7_Step ==
    /\ disk' = disk
    /\ \A r \in Requests :
          req'[r] = req[r] /\ req[r].temp # 0
          => tmp'[req[r].temp] = tmp[req[r].temp]

\* C7: concurrent requests do not interfere: under every interleaving each
\* request's response is the one it gets when run alone on the same files
\* (or the 500 of a failure of its own temporary file), requests in flight
\* hold distinct temporary files, a request's step never touches another
\* request's temporary file, and no step writes the baseline archives or
\* the template files.
C7_Isolated == [](C7_State) /\ [][C7_Step]_vars

\* two requests of different variants and users, each holding a temporary
\* file with entries written, later both answered 200
C7_Witness ==
    /\ req[1].pc = "finish" /\ req[2].pc = "template"
    /\ req[1].variant # req[2].variant
    /\ req[1].body # req[2].body
    /\ Len(tmp[req[2].temp].entries) >= 2

---------------------------------------------------------------------------
(* C8 *)

\* a rendered file's name is the name of a baseline entry
Clash(v) ==
    \E i \in 1..Len(BaseEntries(v)), k \in 1..3 :
        BaseEntries(v)[i].name = ClaimedOrder(v)[k]

---------------------------------------------------------------------------
(* C9 *)

\* C9: a body that lacks one of the four fields, or holds a non-string
\* value for one, is rejected with a client error before the handler body
\* runs: the request never gets past the extractor, no render context is
\* created, no file is read, no temporary file or archive is made, and the
\* response is a 4xx without archive bytes.
C9_BadBodyRejected ==
    \A r \in Requests :
        req[r].pc # "idle" /\ ~WellTyped(req[r].body)
        => /\ req[r].pc \in {"extract", "done"}
           /\ req[r].data = NoData
           /\ req[r].zip_data = Missing
           /\ req[r].temp = 0
           /\ req[r].result = NoResult
           /\ \A n \in TmpNames : ~tmp[n].exists
           /\ req[r].pc = "done" => Answered(r)
           /\ Answered(r) => /\ resp[r].status \in 400..499
                             /\ resp[r].zip = NoZip

\* a rejected request whose body is JSON with a non-string project_name
C9_Witness ==
    \E r \in Requests :
        /\ req[r].pc = "done"
        /\ req[r].body.wellformed
        /\ req[r].body.fields["project_name"] = NotAString
        /\ resp[r].status = 422

---------------------------------------------------------------------------
(* C10 *)

\* C10: the checks of one request run in a fixed order and the first
\* failure decides the error: baseline existence, read and parse, each
\* baseline entry, then LICENSE, the manifest, README.md.  The cause of a
\* 500 is the first failure in that order (or a failure of the temporary
\* file); every baseline entry is in the output before a template file is
\* looked at, and each template file is looked at only after the one before
\* it was written.
C10_FirstFailureDecides ==
    \A r \in Requests :
        LET v == req[r].variant
            n == Len(BaseEntries(v))
            written == tmp[req[r].temp].entries
        IN  /\ resp[r].status = 500
                => \/ resp[r].error.cause = FirstError(v)
                   \/ resp[r].error.cause = IoError
            /\ req[r].pc = "copy"
                => /\ Len(written) = req[r].i - 1
                   /\ \A j \in 1..Len(written) :
                         written[j].name = BaseEntries(v)[j].name
            /\ req[r].pc = "template"
                => /\ Len(written) = n + req[r].i - 1
                   /\ \A j \in 1..n : written[j].name = BaseEntries(v)[j].name
                   /\ \A k \in 1..(req[r].i - 1) :
                         written[n + k].name = ClaimedOrder(v)[k]

\* LICENSE and README.md are both missing, the baseline holds an entry, and
\* the 500 names LICENSE alone
C10_Witness ==
    \E r \in Requests :
        LET v == req[r].variant
        IN  /\ resp[r].status = 500
            /\ Len(BaseEntries(v)) >= 1
            /\ disk[TemplatePath(v, "LICENSE")].kind = "missing"
            /\ disk[TemplatePath(v, "README.md")].kind = "missing"
            /\ resp[r].error.cause = FileNotFound(TemplatePath(v, "LICENSE"))

---------------------------------------------------------------------------
(* C4 *)

Contains(s, t) ==
    \E i \in 1..(Len(s) - Len(t) + 1) : SubSeq(s, i, i + Len(t) - 1) = t

BraceFree(s) == \A i \in 1..Len(s) : s[i] \notin {"{", "}"}

\* every brace of the text belongs to a complete placeholder token
RECURSIVE OnlyWholeTokens(_)
OnlyWholeTokens(s) ==
    IF s = <<>> THEN TRUE
    ELSE IF \E k \in 1..4 : Len(s) >= 5 /\ SubSeq(s, 1, 5) = Token(FieldNames[k])
    THEN OnlyWholeTokens(SubSeq(s, 6, Len(s)))
    ELSE Head(s) \notin {"{", "}"} /\ OnlyWholeTokens(Tail(s))

\* C4 as stated: for each of the four tokens, whenever the corresponding
\* field is non-empty, the output of fill_template_content holds no
\* occurrence of that token.
C4_NoTokenRemains ==
    render.phase = "done"
    => \A k \in 1..4 :
          render.data[FieldNames[k]] # <<>>
          => ~Contains(render.out, Token(FieldNames[k]))

\* C4, amended: for each of the four tokens, whenever the corresponding
\* field is non-empty, no field value holds a brace and every brace of the
\* template belongs to a complete placeholder token, the output of
\* fill_template_content holds no occurrence of that token.
C4_NoTokenRemainsInPlainCase ==
    render.phase = "done"
    /\ OnlyWholeTokens(render.content)
    /\ (\A k \in 1..4 : BraceFree(render.data[FieldNames[k]]))
    => \A k \in 1..4 :
          render.data[FieldNames[k]] # <<>>
          => ~Contains(render.out, Token(FieldNames[k]))

\* a template with {{username}} twice, rendered with brace-free values
C4_Witness ==
    /\ render.phase = "done"
    /\ render.content = Token("username") \o Token("username")
    /\ render.data.username = <<"a">>
    /\ \A k \in 1..4 : BraceFree(render.data[FieldNames[k]])
    /\ render.out = <<"a", "a">>

---------------------------------------------------------------------------
(* C5 *)

\* one left-to-right pass over the template: a token found in the template
\* is replaced by its field's value, and the value is not looked at again
RECURSIVE SinglePass(_, _)
SinglePass(s, data) ==
    IF s = <<>> THEN <<>>
    ELSE IF \E k \in 1..4 : Len(s) >= 5 /\ SubSeq(s, 1, 5) = Token(FieldNames[k])
    THEN data[s[3]] \o SinglePass(SubSeq(s, 6, Len(s)), data)
    ELSE <<Head(s)>> \o SinglePass(Tail(s), data)

\* C5: rendering is a single pass: every token of the original template is
\* replaced by its field's value verbatim, and a value put into the output
\* is never itself substituted, also when it holds a placeholder token.
C5_SinglePass ==
    render.phase = "done"
    => render.out = SinglePass(render.content, render.data)

---------------------------------------------------------------------------
(* C6 *)

Whitespace == {" ", "\t"}
NonAscii == {"E_ACUTE", "e_acute"}

RECURSIVE EncodeNonAsciiOnly(_)
EncodeNonAsciiOnly(s) ==
    IF s = <<>> THEN <<>>
    ELSE (IF Head(s) \in NonAscii THEN PercentEncodeBytes(Utf8Hex(Head(s)))
          ELSE <<Head(s)>>)
         \o EncodeNonAsciiOnly(Tail(s))

\* the bytes a percent-encoded text stands for: a byte written as %XY is
\* <<X, Y>>, a character written as itself is <<c>>
RECURSIVE PercentDecode(_)
PercentDecode(s) ==
    IF s = <<>> THEN <<>>
    ELSE IF Head(s) = "%" /\ Len(s) >= 3
    THEN << <<s[2], s[3]>> >> \o PercentDecode(SubSeq(s, 4, Len(s)))
    ELSE << <<Head(s)>> >> \o PercentDecode(Tail(s))

RECURSIVE BytesOf(_)
BytesOf(s) ==
    IF s = <<>> THEN <<>>
    ELSE (IF Head(s) \in AsciiAlnum THEN << <<Head(s)>> >> ELSE Utf8Hex(Head(s)))
         \o BytesOf(Tail(s))

ClaimedSuffix(v) ==
    IF v = "server" THEN <<".", "z", "i", "p">>
    ELSE <<"-", "c", "l", "i", "e", "n", "t", ".", "z", "i", "p">>

\* C6 as stated: the filename is project_name with every whitespace
\* character replaced by an underscore and all letters lower-cased, plus
\* .zip or -client.zip, and the header names it percent-encoded only where
\* it is non-ASCII.
C6_AsClaimed ==
    naming.phase = "done"
    => LET pn == naming.project_name
       IN  /\ naming.filename =
                  [i \in 1..Len(pn) |->
                      IF pn[i] \in Whitespace THEN "_"
                      ELSE IF pn[i] = "C" THEN "c"
                      ELSE IF pn[i] = "E_ACUTE" THEN "e_acute"
                      ELSE pn[i]] \o ClaimedSuffix(naming.variant)
           /\ naming.header.disposition = "attachment"
           /\ naming.header.value = EncodeNonAsciiOnly(naming.filename)

\* C6, amended: the filename is project_name with every space (U+0020; a
\* tab or other whitespace is kept) replaced by an underscore and all
\* letters lower-cased, plus .zip or -client.zip; the header is
\* attachment; filename*=UTF-8''<value>, where <value> is the filename with
\* every byte that is not an ASCII letter or digit written %XX (also "_",
\* "-", "." and a tab), and decodes to the filename's UTF-8 bytes.
C6_FilenameAndHeader ==
    naming.phase = "done"
    => LET pn == naming.project_name
           value == naming.header.value
       IN  /\ naming.filename =
                  [i \in 1..Len(pn) |->
                      IF pn[i] = " " THEN "_"
                      ELSE IF pn[i] = "C" THEN "c"
                      ELSE IF pn[i] = "E_ACUTE" THEN "e_acute"
                      ELSE pn[i]] \o ClaimedSuffix(naming.variant)
           /\ naming.header.disposition = "attachment"
           /\ naming.header.parameter = "filename*"
           /\ naming.header.charset = "UTF-8"
           /\ \A i \in 1..Len(value) :
                 value[i] \in AsciiAlnum
                     \cup {"%", "0", "2", "3", "5", "8", "9", "A", "D", "E", "F"}
           /\ \A i \in 1..Len(naming.filename) :
                 naming.filename[i] \notin AsciiAlnum
                 => ~Contains(value, <<naming.filename[i]>>)
           /\ PercentDecode(value) = BytesOf(naming.filename)

\* "C c": upper case, a space, and the suffix's "." all take part
C6_Witness ==
    /\ naming.phase = "done"
    /\ naming.variant = "client"
    /\ naming.project_name = <<"C", " ", "c">>
    /\ naming.filename =
           <<"c", "_", "c", "-", "c", "l", "i", "e", "n", "t", ".", "z", "i", "p">>
    /\ Contains(naming.header.value, <<"%", "5", "F">>)

===========================================================================
